---- MODULE Spec2Model ----
(***************************************************************************)
(* Night_G API: Google OAuth2 login callback (google_callback) and bearer  *)
(* token authentication (is_authenticated).                                *)
(*                                                                         *)
(* The handlers are coroutines: every "await" is a point where another     *)
(* request may run, so each action below is the code between two awaits.   *)
(* UserDAO, TokenDAO and the google OAuth service are collaborators whose  *)
(* bodies are outside this source tree; they follow the contracts of the   *)
(* design document (unique e-mail in the user store, single-use            *)
(* authorization codes, signed tokens with an expiry).                     *)
(***************************************************************************)
EXTENDS Integers, Sequences, FiniteSets, TLC

VARIABLES
    users,      \* rows of the user table
    tokens,     \* rows of the token table
    usedCodes,  \* authorization codes the provider has already redeemed
    now,        \* the clock
    pc,         \* pc[p]: where callback invocation p is suspended
    req,        \* req[p]: the locals of callback invocation p
    resp,       \* resp[p]: the response of callback invocation p
    apc,        \* where the is_authenticated call is suspended
    areq,       \* the locals of the is_authenticated call
    aresp,      \* the result of the is_authenticated call
    settings,   \* the Google credentials of the configuration
    login       \* the last google_login request and its response

vars == <<users, tokens, usedCodes, now, pc, req, resp, apc, areq, aresp,
          settings, login>>

-----------------------------------------------------------------------------
(* Bounds *)

MaxTime == 2
MaxHeaderLen == 3

(* Two concurrent callback requests *)
Procs == {1, 2}

(* Authorization codes the provider hands out; NoCode: no ?code= parameter *)
Codes == {1, 2}
NoCode == 0

(* e-mail addresses as the provider returns them: the parts around "@" *)
Emails == {<<"a", "x">>, <<"b", "x">>, <<"a">>}

Profiles == [email : Emails, verified_email : BOOLEAN, name : {"n"}]
NoProfile == [email |-> <<>>, verified_email |-> FALSE, name |-> ""]

NoUser == [id |-> 0, username |-> "", email |-> <<>>]

(* a field that a token payload does not carry *)
NoField == -1

(* settings.token_secret_key, settings.token_algorithm *)
token_secret_key == "secret"
token_algorithm == "HS256"

(* lifetime of an issued token *)
TokenTTL == 1

-----------------------------------------------------------------------------
(* Tokens.  A JWT is its payload (user_id, exp), the key that signed it    *)
(* and the algorithm of its header.                                        *)

NoJwt == [user_id |-> NoField, exp |-> NoField, key |-> "", alg |-> ""]

Jwt(uid, exp, key, alg) == [user_id |-> uid, exp |-> exp, key |-> key, alg |-> alg]

(* TokenDAO.create_token: jwt.encode of the user id and the expiry *)
jwt_encode(user_id, t) == Jwt(user_id, t + TokenTTL, token_secret_key, token_algorithm)

(* Header values are strings; a string is a sequence of atoms: whitespace, *)
(* a piece of text that is no JWT ("Bearer"), or the text of a JWT.        *)
WS == [ws |-> TRUE, jwt |-> NoJwt]
Bearer == [ws |-> FALSE, jwt |-> NoJwt]
Text(t) == [ws |-> FALSE, jwt |-> t]

(* str.rstrip() *)
RECURSIVE rstrip(_)
rstrip(s) ==
    IF s = <<>> THEN <<>>
    ELSE IF s[Len(s)].ws THEN rstrip(SubSeq(s, 1, Len(s) - 1))
    ELSE s

(* the last run of non-whitespace of a string that does not end in one *)
RECURSIVE lastWord(_)
lastWord(s) ==
    IF s = <<>> THEN <<>>
    ELSE IF s[Len(s)].ws THEN <<>>
    ELSE Append(lastWord(SubSeq(s, 1, Len(s) - 1)), s[Len(s)])

(* no split at all: the whole header value is taken as the token *)
rsplit1_whole(s) == IF rstrip(s) = <<>> THEN <<>> ELSE <<s>>

(* authorization.rsplit(maxsplit=1): the list of at most two pieces *)
rsplit1(s) ==
    LET r == rstrip(s)
        w == lastWord(r)
        rest == rstrip(SubSeq(r, 1, Len(r) - Len(w)))
    IN  IF r = <<>> THEN <<>>
        ELSE IF rest = <<>> THEN <<w>>
        ELSE <<rest, w>>

(* jwt_decode that does not verify the signature *)
jwt_decode_no_signature(word, key, alg, t) ==
    IF Len(word) # 1 \/ word[1].jwt = NoJwt
        THEN [err |-> "JWTError", payload |-> NoJwt]
    ELSE IF word[1].jwt.exp # NoField /\ word[1].jwt.exp < t
        THEN [err |-> "ExpiredSignatureError", payload |-> NoJwt]
    ELSE [err |-> "", payload |-> word[1].jwt]

(* jwt_decode that does not look at the exp claim *)
jwt_decode_no_expiry(word, key, alg, t) ==
    IF Len(word) # 1 \/ word[1].jwt = NoJwt
        THEN [err |-> "JWTError", payload |-> NoJwt]
    ELSE IF word[1].jwt.alg # alg \/ word[1].jwt.key # key
        THEN [err |-> "JWTError", payload |-> NoJwt]
    ELSE [err |-> "", payload |-> word[1].jwt]

(* jwt_decode that already rejects a token at the instant of its expiry *)
jwt_decode_expiry_off_by_one(word, key, alg, t) ==
    IF Len(word) # 1 \/ word[1].jwt = NoJwt
        THEN [err |-> "JWTError", payload |-> NoJwt]
    ELSE IF word[1].jwt.alg # alg \/ word[1].jwt.key # key
        THEN [err |-> "JWTError", payload |-> NoJwt]
    ELSE IF word[1].jwt.exp # NoField /\ word[1].jwt.exp <= t
        THEN [err |-> "ExpiredSignatureError", payload |-> NoJwt]
    ELSE [err |-> "", payload |-> word[1].jwt]

(* jose.jwt.decode(token, key, algorithms=[alg]) at time t: the signature  *)
(* is verified first, then the exp claim if present.                       *)
jwt_decode(word, key, alg, t) ==
    IF Len(word) # 1 \/ word[1].jwt = NoJwt
        THEN [err |-> "JWTError", payload |-> NoJwt]
    ELSE IF word[1].jwt.alg # alg \/ word[1].jwt.key # key
        THEN [err |-> "JWTError", payload |-> NoJwt]
    ELSE IF word[1].jwt.exp # NoField /\ word[1].jwt.exp < t
        THEN [err |-> "ExpiredSignatureError", payload |-> NoJwt]
    ELSE [err |-> "", payload |-> word[1].jwt]

-----------------------------------------------------------------------------
(* The user store *)

(* UserDAO.get_user_by_email *)
get_user_by_email(email) ==
    IF \E u \in users : u.email = email
        THEN CHOOSE u \in users : u.email = email
        ELSE NoUser

(* UserDAO.get_user *)
get_user(id) ==
    IF \E u \in users : u.id = id
        THEN CHOOSE u \in users : u.id = id
        ELSE NoUser

(* the id the user table gives its next row *)
nextUserId == Cardinality(users) + 1

(* a user table without the unique e-mail column *)
create_user_ok_no_constraint(email) == TRUE

(* UserDAO.create_user: the unique e-mail column rejects a second row *)
create_user_ok(email) == \A u \in users : u.email # email

-----------------------------------------------------------------------------
(* Responses *)

Response(kind, status, token) == [kind |-> kind, status |-> status, token |-> token]
NoResponse == Response("", 0, NoJwt)

(* calls: the collaborators the invocation has called so far *)
NoReq == [code |-> NoCode, access_token |-> NoCode, profile |-> NoProfile,
          user_id |-> 0, calls |-> <<>>]

AuthResult(kind, status, user) == [kind |-> kind, status |-> status, user |-> user]
NoAuthResult == AuthResult("", 0, NoUser)

NoAreq == [present |-> FALSE, header |-> <<>>, payload |-> NoJwt, at |-> 0]

(* a setting that is None *)
NoSetting == "None"

(* settings.google_client_id, settings.google_client_secret *)
Settings == [google_client_id : {NoSetting, "id1", "id2", "id3"},
             google_client_secret : {NoSetting, "secret1", "secret2"}]

Configured == [google_client_id |-> "id1", google_client_secret |-> "secret1"]

(* the hosts a login request can come in on *)
Hosts == {"api", "localhost", "proxy"}

(* request.url_for("google_callback") *)
url_for_callback(host) == [host |-> host, path |-> "/auth/google/callback"]

(* google.auth_url(client_id, redirect_uri=...) *)
auth_url(client_id, redirect_uri) ==
    [endpoint |-> "accounts.google.com", client_id |-> client_id,
     redirect_uri |-> redirect_uri]

NoUrl == auth_url(NoSetting, url_for_callback(""))

LoginResponse(host, kind, status, url) ==
    [host |-> host, kind |-> kind, status |-> status, url |-> url]
NoLogin == LoginResponse("", "", 0, NoUrl)

Init ==
    /\ users = {}
    /\ tokens = {}
    /\ usedCodes = {}
    /\ now = 0
    /\ pc = [p \in Procs |-> "idle"]
    /\ req = [p \in Procs |-> NoReq]
    /\ resp = [p \in Procs |-> NoResponse]
    /\ apc = "idle"
    /\ areq = NoAreq
    /\ aresp = NoAuthResult
    /\ settings = Configured
    /\ login = NoLogin

Tick ==
    /\ UNCHANGED <<settings, login>>
    /\ now < MaxTime
    /\ now' = now + 1
    /\ UNCHANGED <<users, tokens, usedCodes, pc, req, resp, apc, areq, aresp>>

-----------------------------------------------------------------------------
(* google_callback *)

Called(p, name) == \E i \in 1..Len(req[p].calls) : req[p].calls[i] = name

Finish(p, r) ==
    /\ pc' = [pc EXCEPT ![p] = "done"]
    /\ resp' = [resp EXCEPT ![p] = r]

(* callback_start without the "if code is None" *)
callback_start_no_check(p) ==
    /\ UNCHANGED <<settings, login>>
    /\ pc[p] \in {"idle", "done"}
    /\ \E code \in Codes \cup {NoCode} :
          /\ req' = [req EXCEPT ![p] = [NoReq EXCEPT !.code = code]]
          /\ pc' = [pc EXCEPT ![p] = "get_token"]
          /\ resp' = [resp EXCEPT ![p] = NoResponse]
    /\ UNCHANGED <<users, tokens, usedCodes, now, apc, areq, aresp>>

(* the request arrives; "if code is None" *)
callback_start(p) ==
    /\ UNCHANGED <<settings, login>>
    /\ pc[p] \in {"idle", "done"}
    /\ \E code \in Codes \cup {NoCode} :
          IF code = NoCode
          THEN /\ req' = [req EXCEPT ![p] = NoReq]
               /\ Finish(p, Response("MissingAuthorizationCode", 400, NoJwt))
          ELSE /\ req' = [req EXCEPT ![p] = [NoReq EXCEPT !.code = code]]
               /\ pc' = [pc EXCEPT ![p] = "get_token"]
               /\ resp' = [resp EXCEPT ![p] = NoResponse]
    /\ UNCHANGED <<users, tokens, usedCodes, now, apc, areq, aresp>>

(* callback_get_token that sends the exchange request again when it failed *)
callback_get_token_retries(p) ==
    /\ UNCHANGED <<settings, login>>
    /\ pc[p] = "get_token"
    /\ \E net_ok \in BOOLEAN :
          IF net_ok /\ req[p].code \notin usedCodes
          THEN /\ usedCodes' = usedCodes \cup {req[p].code}
               /\ req' = [req EXCEPT ![p].access_token = req[p].code,
                                     ![p].calls = Append(@, "get_token")]
               /\ pc' = [pc EXCEPT ![p] = "get_user_info"]
          ELSE /\ req' = [req EXCEPT ![p].calls = Append(@, "get_token")]
               /\ UNCHANGED <<usedCodes, pc>>
    /\ UNCHANGED <<resp, users, tokens, now, apc, areq, aresp>>

(* callback_get_token that goes on to the profile after a failed exchange *)
callback_get_token_ignores_failure(p) ==
    /\ UNCHANGED <<settings, login>>
    /\ pc[p] = "get_token"
    /\ \E net_ok \in BOOLEAN :
          IF net_ok /\ req[p].code \notin usedCodes
          THEN /\ usedCodes' = usedCodes \cup {req[p].code}
               /\ req' = [req EXCEPT ![p].access_token = req[p].code,
                                     ![p].calls = Append(@, "get_token")]
          ELSE /\ req' = [req EXCEPT ![p].calls = Append(@, "get_token")]
               /\ UNCHANGED usedCodes
    /\ pc' = [pc EXCEPT ![p] = "get_user_info"]
    /\ UNCHANGED <<resp, users, tokens, now, apc, areq, aresp>>

(* await google.get_token(...): the provider redeems a code once; the     *)
(* request can also fail on the network                                    *)
callback_get_token(p) ==
    /\ UNCHANGED <<settings, login>>
    /\ pc[p] = "get_token"
    /\ \E net_ok \in BOOLEAN :
          IF net_ok /\ req[p].code \notin usedCodes
          THEN /\ usedCodes' = usedCodes \cup {req[p].code}
               /\ req' = [req EXCEPT ![p].access_token = req[p].code,
                                     ![p].calls = Append(@, "get_token")]
               /\ pc' = [pc EXCEPT ![p] = "get_user_info"]
               /\ UNCHANGED resp
          ELSE /\ req' = [req EXCEPT ![p].calls = Append(@, "get_token")]
               /\ Finish(p, Response("CodeExchangeFailed", 400, NoJwt))
               /\ UNCHANGED usedCodes
    /\ UNCHANGED <<users, tokens, now, apc, areq, aresp>>

(* check_verified without the check *)
check_verified_skipped(p, profile) ==
    /\ pc' = [pc EXCEPT ![p] = "get_user_by_email"]
    /\ UNCHANGED resp

(* "if not user_info['verified_email']: raise NotVerifiedEmailError" *)
check_verified(p, profile) ==
    IF ~profile.verified_email
    THEN Finish(p, Response("EmailNotVerified", 400, NoJwt))
    ELSE /\ pc' = [pc EXCEPT ![p] = "get_user_by_email"]
         /\ UNCHANGED resp

(* await google.get_user_info(access_token), then the e-mail domain and   *)
(* the verified_email check                                                *)
callback_get_user_info(p) ==
    /\ UNCHANGED <<settings, login>>
    /\ pc[p] = "get_user_info"
    /\ \/ \E profile \in Profiles :
            /\ req' = [req EXCEPT ![p].profile = profile,
                                  ![p].calls = Append(@, "get_user_info")]
            /\ IF Len(profile.email) < 2
               THEN Finish(p, Response("IndexError", 500, NoJwt))
               ELSE check_verified(p, profile)
       \/ /\ req' = [req EXCEPT ![p].calls = Append(@, "get_user_info")]
          /\ Finish(p, Response("ProfileFetchError", 500, NoJwt))
    /\ UNCHANGED <<users, tokens, usedCodes, now, apc, areq, aresp>>

(* resolve_user that creates a user whether or not one was found *)
resolve_user_always_creates(p, user) ==
    /\ req' = [req EXCEPT ![p].calls = Append(@, "get_user_by_email")]
    /\ pc' = [pc EXCEPT ![p] = "create_user"]

(* "if user is not None: user_id = user.id else: ... create_user" *)
resolve_user(p, user) ==
    IF user # NoUser
    THEN /\ req' = [req EXCEPT ![p].user_id = user.id,
                               ![p].calls = Append(@, "get_user_by_email")]
         /\ pc' = [pc EXCEPT ![p] = "create_token"]
    ELSE /\ req' = [req EXCEPT ![p].calls = Append(@, "get_user_by_email")]
         /\ pc' = [pc EXCEPT ![p] = "create_user"]

(* await user_dao.get_user_by_email(email=user_email) *)
callback_get_user_by_email(p) ==
    /\ UNCHANGED <<settings, login>>
    /\ pc[p] = "get_user_by_email"
    /\ resolve_user(p, get_user_by_email(req[p].profile.email))
    /\ UNCHANGED <<users, tokens, usedCodes, now, resp, apc, areq, aresp>>

(* callback_create_user that ignores a rejected insert and goes on *)
callback_create_user_swallows(p) ==
    /\ UNCHANGED <<settings, login>>
    /\ pc[p] = "create_user"
    /\ IF create_user_ok(req[p].profile.email)
       THEN /\ users' = users \cup {[id |-> nextUserId,
                                     username |-> req[p].profile.name,
                                     email |-> req[p].profile.email]}
            /\ req' = [req EXCEPT ![p].user_id = nextUserId,
                                  ![p].calls = Append(@, "create_user")]
       ELSE /\ req' = [req EXCEPT ![p].calls = Append(@, "create_user")]
            /\ UNCHANGED users
    /\ pc' = [pc EXCEPT ![p] = "create_token"]
    /\ UNCHANGED <<resp, tokens, usedCodes, now, apc, areq, aresp>>

(* await user_dao.create_user(username=..., email=...): no handler around *)
(* the call, a rejected insert leaves the handler as an exception          *)
callback_create_user(p) ==
    /\ UNCHANGED <<settings, login>>
    /\ pc[p] = "create_user"
    /\ IF create_user_ok(req[p].profile.email)
       THEN /\ users' = users \cup {[id |-> nextUserId,
                                     username |-> req[p].profile.name,
                                     email |-> req[p].profile.email]}
            /\ req' = [req EXCEPT ![p].user_id = nextUserId,
                                  ![p].calls = Append(@, "create_user")]
            /\ pc' = [pc EXCEPT ![p] = "create_token"]
            /\ UNCHANGED resp
       ELSE /\ req' = [req EXCEPT ![p].calls = Append(@, "create_user")]
            /\ Finish(p, Response("DuplicateEmail", 500, NoJwt))
            /\ UNCHANGED users
    /\ UNCHANGED <<tokens, usedCodes, now, apc, areq, aresp>>

(* await token_dao.create_token(user_id=user_id) and the redirect; a      *)
(* failed insert into the token table leaves the handler as an exception   *)
callback_create_token(p) ==
    /\ UNCHANGED <<settings, login>>
    /\ pc[p] = "create_token"
    /\ \E db_ok \in BOOLEAN :
          IF db_ok
          THEN /\ tokens' = tokens \cup
                     {[user_id |-> req[p].user_id,
                       token |-> jwt_encode(req[p].user_id, now),
                       issued_at |-> now]}
               /\ Finish(p, Response("Authenticated", 307,
                                     jwt_encode(req[p].user_id, now)))
          ELSE /\ Finish(p, Response("TokenStoreError", 500, NoJwt))
               /\ UNCHANGED tokens
    /\ req' = [req EXCEPT ![p].calls = Append(@, "create_token")]
    /\ UNCHANGED <<users, usedCodes, now, apc, areq, aresp>>

google_callback(p) ==
    \/ callback_start(p)
    \/ callback_get_token(p)
    \/ callback_get_user_info(p)
    \/ callback_get_user_by_email(p)
    \/ callback_create_user(p)
    \/ callback_create_token(p)

-----------------------------------------------------------------------------
(* is_authenticated *)

Header(present, value) == [present |-> present, value |-> value]

(* the strings of at most n atoms over an alphabet *)
RECURSIVE Strings(_, _)
Strings(alphabet, n) ==
    IF n = 0 THEN {<<>>}
    ELSE LET shorter == Strings(alphabet, n - 1)
         IN  shorter \cup {Append(s, a) : s \in shorter, a \in alphabet}

(* what a client that completed a login sends: the issued token, bare or  *)
(* after "Bearer ", or no header at all                                    *)
IssuedHeaders ==
    {Header(FALSE, <<>>)}
    \cup {Header(TRUE, <<Text(r.token)>>) : r \in tokens}
    \cup {Header(TRUE, <<Bearer, WS, Text(r.token)>>) : r \in tokens}

(* what anybody can send: any short string around any token, whoever      *)
(* signed it                                                               *)
AnyJwt ==
    [user_id : {NoField} \cup 1..3, exp : {NoField} \cup 0..MaxTime,
     key : {token_secret_key, "other"}, alg : {token_algorithm, "none"}]

AnyHeaders ==
    {Header(FALSE, <<>>)}
    \cup UNION {{Header(TRUE, s) : s \in Strings({WS, Bearer, Text(t)}, MaxHeaderLen)}
                   : t \in AnyJwt}

AuthFinish(r) ==
    /\ apc' = "done"
    /\ aresp' = r

(* the header check, the split, jwt.decode and payload["user_id"]: the    *)
(* code up to the await of user_dao.get_user                               *)
auth_decode(h) ==
    /\ UNCHANGED <<settings, login>>
    /\ LET pieces == rsplit1(h.value)
           decoded == jwt_decode(pieces[Len(pieces)], token_secret_key,
                                 token_algorithm, now)
       IN  IF ~h.present
           THEN /\ areq' = [NoAreq EXCEPT !.at = now]
                /\ AuthFinish(AuthResult("MissingCredential", 400, NoUser))
           ELSE IF pieces = <<>>
           THEN /\ areq' = [NoAreq EXCEPT !.present = TRUE, !.header = h.value,
                                          !.at = now]
                /\ AuthFinish(AuthResult("IndexError", 500, NoUser))
           ELSE /\ areq' = [present |-> TRUE, header |-> h.value,
                            payload |-> decoded.payload, at |-> now]
                /\ IF decoded.err = "ExpiredSignatureError"
                   THEN AuthFinish(AuthResult("TokenExpired", 401, NoUser))
                   ELSE IF decoded.err = "JWTError"
                   THEN AuthFinish(AuthResult("TokenInvalid", 401, NoUser))
                   ELSE IF decoded.payload.user_id = NoField
                   THEN AuthFinish(AuthResult("KeyError", 500, NoUser))
                   ELSE /\ apc' = "get_user"
                        /\ aresp' = NoAuthResult
    /\ UNCHANGED <<users, tokens, usedCodes, now, pc, req, resp>>

(* auth_get_user that reports a missing user as an invalid token *)
auth_get_user_not_found_as_invalid ==
    /\ UNCHANGED <<settings, login>>
    /\ apc = "get_user"
    /\ LET user == get_user(areq.payload.user_id)
       IN  IF user # NoUser
           THEN AuthFinish(AuthResult("User", 200, user))
           ELSE AuthFinish(AuthResult("TokenInvalid", 401, NoUser))
    /\ UNCHANGED <<users, tokens, usedCodes, now, pc, req, resp, areq>>

(* auth_get_user that makes the token single-use *)
auth_get_user_consumes_token ==
    /\ UNCHANGED <<settings, login>>
    /\ apc = "get_user"
    /\ LET user == get_user(areq.payload.user_id)
       IN  IF user # NoUser
           THEN AuthFinish(AuthResult("User", 200, user))
           ELSE AuthFinish(AuthResult("UserNotFound", 404, NoUser))
    /\ tokens' = {r \in tokens : r.token # areq.payload}
    /\ UNCHANGED <<users, usedCodes, now, pc, req, resp, areq>>

(* await user_dao.get_user(payload["user_id"]) and the result *)
auth_get_user ==
    /\ UNCHANGED <<settings, login>>
    /\ apc = "get_user"
    /\ LET user == get_user(areq.payload.user_id)
       IN  IF user # NoUser
           THEN AuthFinish(AuthResult("User", 200, user))
           ELSE AuthFinish(AuthResult("UserNotFound", 404, NoUser))
    /\ UNCHANGED <<users, tokens, usedCodes, now, pc, req, resp, areq>>

(* a client of the login flow authenticates *)
is_authenticated ==
    \/ /\ apc \in {"idle", "done"}
       /\ \E h \in IssuedHeaders : auth_decode(h)
    \/ auth_get_user

(* the request of any caller, already received, is served *)
is_authenticated_any ==
    \/ /\ apc = "received"
       /\ auth_decode(Header(areq.present, areq.header))
    \/ auth_get_user

-----------------------------------------------------------------------------

Next ==
    \/ Tick
    \/ \E p \in Procs : google_callback(p)
    \/ is_authenticated

Spec == Init /\ [][Next]_vars

(* is_authenticated alone, over every header, against a user table as the *)
(* logins can have left it                                                 *)
StoredUsers ==
    {{},
     {[id |-> 1, username |-> "n", email |-> <<"a", "x">>]},
     {[id |-> 1, username |-> "n", email |-> <<"b", "x">>],
      [id |-> 2, username |-> "n", email |-> <<"a", "x">>]}}

InitAuth ==
    /\ users \in StoredUsers
    /\ tokens = {}
    /\ usedCodes = {}
    /\ now = 0
    /\ pc = [p \in Procs |-> "idle"]
    /\ req = [p \in Procs |-> NoReq]
    /\ resp = [p \in Procs |-> NoResponse]
    /\ apc = "received"
    /\ \E h \in AnyHeaders :
          areq = [NoAreq EXCEPT !.present = h.present, !.header = h.value]
    /\ aresp = NoAuthResult
    /\ settings = Configured
    /\ login = NoLogin

NextAuth ==
    \/ Tick
    \/ is_authenticated_any

SpecAuth == InitAuth /\ [][NextAuth]_vars

-----------------------------------------------------------------------------
(* google_login *)

(* google_login that refuses only when both credentials are missing *)
google_login_needs_one(host) ==
    /\ IF settings.google_client_id = NoSetting
          /\ settings.google_client_secret = NoSetting
       THEN login' = LoginResponse(host, "Configuration", 500, NoUrl)
       ELSE login' = LoginResponse(host, "Redirect", 307,
                        auth_url(settings.google_client_id, url_for_callback(host)))
    /\ UNCHANGED <<users, tokens, usedCodes, now, pc, req, resp, apc, areq,
                   aresp, settings>>

(* the whole handler: it awaits nothing *)
google_login(host) ==
    /\ IF settings.google_client_id = NoSetting
          \/ settings.google_client_secret = NoSetting
       THEN login' = LoginResponse(host, "Configuration", 500, NoUrl)
       ELSE login' = LoginResponse(host, "Redirect", 307,
                        auth_url(settings.google_client_id, url_for_callback(host)))
    /\ UNCHANGED <<users, tokens, usedCodes, now, pc, req, resp, apc, areq,
                   aresp, settings>>

(* google_login alone, under every configuration *)
InitLogin ==
    /\ users = {}
    /\ tokens = {}
    /\ usedCodes = {}
    /\ now = 0
    /\ pc = [p \in Procs |-> "idle"]
    /\ req = [p \in Procs |-> NoReq]
    /\ resp = [p \in Procs |-> NoResponse]
    /\ apc = "idle"
    /\ areq = NoAreq
    /\ aresp = NoAuthResult
    /\ settings \in Settings
    /\ login = NoLogin

NextLogin ==
    \/ Tick
    \/ \E host \in Hosts : google_login(host)

SpecLogin == InitLogin /\ [][NextLogin]_vars
-----------------------------------------------------------------------------
(* Properties of google_callback *)

Authenticated(p) == pc[p] = "done" /\ resp[p].kind = "Authenticated"

Fetched(p) == req[p].profile # NoProfile

UsersWithEmail(email) == {u \in users : u.email = email}

(* C1: a callback whose provider profile has verified_email = false stops *)
(* at the check: it never looks up or creates a user and never creates a  *)
(* token, and its response carries no token.                               *)
C1_UnverifiedNoSideEffect ==
    \A p \in Procs :
        (Fetched(p) /\ ~req[p].profile.verified_email) =>
            /\ pc[p] = "done"
            /\ ~Called(p, "get_user_by_email")
            /\ ~Called(p, "create_user")
            /\ ~Called(p, "create_token")
            /\ resp[p].token = NoJwt

C1_Witness ==
    \E p \in Procs :
        /\ Fetched(p) /\ ~req[p].profile.verified_email
        /\ resp[p].kind = "EmailNotVerified"
        /\ users # {} /\ tokens # {}

(* of two callbacks that completed a login with the same verified e-mail  *)
(* at most one called create_user; both resolved to the id of the one row  *)
(* the table has for the e-mail and both returned tokens carry that id     *)
SameEmailSameUser ==
    \A p, q \in Procs :
        (/\ p # q /\ Authenticated(p) /\ Authenticated(q)
         /\ req[p].profile.email = req[q].profile.email) =>
            /\ ~(Called(p, "create_user") /\ Called(q, "create_user"))
            /\ req[q].user_id = req[p].user_id
            /\ resp[p].token.user_id = req[p].user_id
            /\ resp[q].token.user_id = req[p].user_id
            /\ UsersWithEmail(req[p].profile.email) =
                  {[id |-> req[p].user_id, username |-> req[p].profile.name,
                    email |-> req[p].profile.email]}

(* a callback that looks its e-mail up when a user with it is stored goes  *)
(* on to create_token with that user's id, and the table stays as it is    *)
LookupFindsStoredUser ==
    \A q \in Procs :
        (/\ pc[q] = "get_user_by_email" /\ pc'[q] # "get_user_by_email"
         /\ UsersWithEmail(req[q].profile.email) # {}) =>
            /\ pc'[q] = "create_token"
            /\ \E u \in UsersWithEmail(req[q].profile.email) :
                  req'[q].user_id = u.id
            /\ users' = users

(* C2: a login with a verified e-mail that an earlier login already       *)
(* created a user for resolves to that user's id without creating a second *)
(* user, and the tokens of both logins are issued for that one user.       *)
C2_SecondLoginSameUser ==
    []SameEmailSameUser /\ [][LookupFindsStoredUser]_vars

C2_Witness ==
    \E p, q \in Procs :
        /\ p # q /\ Authenticated(p) /\ Authenticated(q)
        /\ req[p].profile.email = req[q].profile.email
        /\ Called(p, "create_user") /\ ~Called(q, "create_user")
        /\ resp[q].token.user_id = req[p].user_id

(* C3: when two callbacks for the same unseen verified e-mail both look   *)
(* the user up before either creates it (so both call create_user), both   *)
(* end Authenticated with a token for the same user id.                    *)
C3_RaceBothAuthenticated ==
    \A p, q \in Procs :
        (/\ p # q /\ Authenticated(p) /\ pc[q] = "done"
         /\ req[p].profile.email = req[q].profile.email
         /\ Called(p, "create_user") /\ Called(q, "create_user")) =>
            /\ Authenticated(q)
            /\ resp[q].token.user_id = resp[p].token.user_id

(* C4: the user table never holds two rows with the same e-mail, and the  *)
(* ids of its rows are distinct.                                           *)
C4_OneUserPerEmail ==
    \A u, v \in users : (u.email = v.email \/ u.id = v.id) => u = v

C4_Witness ==
    \E p, q \in Procs :
        /\ p # q /\ pc[p] = "done" /\ pc[q] = "done"
        /\ req[p].profile.email = req[q].profile.email
        /\ Called(p, "create_user") /\ Called(q, "create_user")
        /\ Cardinality(UsersWithEmail(req[p].profile.email)) = 1
        /\ resp[q].kind = "DuplicateEmail"

(* C5: every stored token and every token a callback returned carries the *)
(* id of a user that is in the user table.                                 *)
C5_TokenSubjectExists ==
    /\ \A r \in tokens :
          /\ r.token.user_id = r.user_id
          /\ \E u \in users : u.id = r.user_id
    /\ \A p \in Procs :
          Authenticated(p) => \E u \in users : u.id = resp[p].token.user_id

C5_Witness ==
    \E p, q \in Procs :
        /\ Authenticated(p) /\ Authenticated(q)
        /\ Called(p, "create_user") /\ ~Called(q, "create_user")
        /\ Cardinality(tokens) >= 2
-----------------------------------------------------------------------------
(* Properties of is_authenticated *)

(* the header value has a character that is not whitespace *)
HasWord(s) == \E i \in 1..Len(s) : ~s[i].ws

(* the last whitespace-delimited word of a header value that has one *)
LastWordOf(s) ==
    LET j == CHOOSE k \in 1..Len(s) :
                ~s[k].ws /\ \A m \in (k + 1)..Len(s) : s[m].ws
        i == CHOOSE k \in 1..j :
                /\ \A m \in k..j : ~s[m].ws
                /\ k > 1 => s[k - 1].ws
    IN  SubSeq(s, i, j)

(* the word is the text of one JWT *)
IsJwt(w) == Len(w) = 1 /\ w[1].jwt # NoJwt

SignatureValid(t) == t.key = token_secret_key /\ t.alg = token_algorithm

ExpiredAt(t, at) == t.exp # NoField /\ t.exp < at

(* the request that was served carried a header with a word in it *)
Served == apc = "done" /\ areq.present /\ HasWord(areq.header)

(* C6: is_authenticated returns a User only for a header whose last word  *)
(* is a token signed with the configured key and algorithm and not expired *)
(* when it was decoded, and the User is the stored one with the token's    *)
(* user id.                                                                *)
C6_UserOnlyForValidToken ==
    aresp.kind = "User" =>
        /\ Served
        /\ IsJwt(LastWordOf(areq.header))
        /\ LET t == LastWordOf(areq.header)[1].jwt
           IN  /\ SignatureValid(t)
               /\ ~ExpiredAt(t, areq.at)
               /\ aresp.user \in users
               /\ aresp.user.id = t.user_id

C6_Witness ==
    /\ aresp.kind = "User"
    /\ areq.header = <<Bearer, WS, Text(areq.payload)>>
    /\ areq.payload.exp = areq.at
    /\ Cardinality(users) = 2

(* C7: an absent header gives MissingCredential/400; a correctly signed   *)
(* token past its expiry gives TokenExpired/401; a last word that is no    *)
(* token or is not signed with the configured key and algorithm gives      *)
(* TokenInvalid/401; a correctly signed, unexpired token whose user id is  *)
(* not in the user table gives UserNotFound/404.                           *)
C7_FailureMapping ==
    apc = "done" =>
        /\ ~areq.present =>
              aresp = AuthResult("MissingCredential", 400, NoUser)
        /\ Served =>
              LET w == LastWordOf(areq.header)
              IN  /\ (IsJwt(w) /\ SignatureValid(w[1].jwt)
                      /\ ExpiredAt(w[1].jwt, areq.at)) =>
                         aresp = AuthResult("TokenExpired", 401, NoUser)
                  /\ (~IsJwt(w) \/ ~SignatureValid(w[1].jwt)) =>
                         aresp = AuthResult("TokenInvalid", 401, NoUser)
                  /\ (IsJwt(w) /\ SignatureValid(w[1].jwt)
                      /\ ~ExpiredAt(w[1].jwt, areq.at)
                      /\ w[1].jwt.user_id # NoField
                      /\ \A u \in users : u.id # w[1].jwt.user_id) =>
                         aresp = AuthResult("UserNotFound", 404, NoUser)

C7_Witness ==
    /\ Served
    /\ aresp = AuthResult("UserNotFound", 404, NoUser)
    /\ users # {}
    /\ areq.payload.user_id = 3

(* what is_authenticated answers at time "at" to a header that is just    *)
(* the word w                                                              *)
WordResult(w, at) ==
    IF ~IsJwt(w) \/ ~SignatureValid(w[1].jwt)
        THEN AuthResult("TokenInvalid", 401, NoUser)
    ELSE IF ExpiredAt(w[1].jwt, at)
        THEN AuthResult("TokenExpired", 401, NoUser)
    ELSE IF w[1].jwt.user_id = NoField
        THEN AuthResult("KeyError", 500, NoUser)
    ELSE IF \E u \in users : u.id = w[1].jwt.user_id
        THEN AuthResult("User", 200, CHOOSE u \in users : u.id = w[1].jwt.user_id)
    ELSE AuthResult("UserNotFound", 404, NoUser)

(* C8: the answer to a header depends only on its last whitespace-        *)
(* delimited word: "Bearer <t>" and the bare "<t>" (and any other header   *)
(* ending in that word) get the answer the token <t> alone gets, for a     *)
(* valid token the same User.                                              *)
C8_PrefixTolerant ==
    Served => aresp = WordResult(LastWordOf(areq.header), areq.at)

C8_Witness ==
    /\ Served
    /\ areq.header = <<Bearer, WS, Text(areq.payload)>>
    /\ aresp.kind = "User"
    /\ aresp = WordResult(<<Text(areq.payload)>>, areq.at)

(* C9 as written: every token whose expiry is in the past is answered     *)
(* with TokenExpired, whatever its signature.                              *)
C9_ExpiredWhateverSignature ==
    (Served /\ IsJwt(LastWordOf(areq.header))
     /\ ExpiredAt(LastWordOf(areq.header)[1].jwt, areq.at)) =>
        aresp = AuthResult("TokenExpired", 401, NoUser)

(* C9 amended: a token whose expiry is in the past is answered with       *)
(* TokenExpired when its signature is valid, and with TokenInvalid when    *)
(* it is not (the signature is verified before the expiry is looked at).   *)
C9_ExpiredBySignature ==
    (Served /\ IsJwt(LastWordOf(areq.header))
     /\ ExpiredAt(LastWordOf(areq.header)[1].jwt, areq.at)) =>
        IF SignatureValid(LastWordOf(areq.header)[1].jwt)
        THEN aresp = AuthResult("TokenExpired", 401, NoUser)
        ELSE aresp = AuthResult("TokenInvalid", 401, NoUser)

C9_Witness ==
    /\ Served
    /\ IsJwt(LastWordOf(areq.header))
    /\ ExpiredAt(LastWordOf(areq.header)[1].jwt, areq.at)
    /\ SignatureValid(LastWordOf(areq.header)[1].jwt)
    /\ aresp.kind = "TokenExpired"

(* C10: a token that a completed login stored for user U, presented to    *)
(* is_authenticated between its issue and its expiry, decodes to U's id    *)
(* and the call returns the stored user U.                                 *)
C10_RoundTrip ==
    \A r \in tokens :
        (/\ apc \in {"get_user", "done"} /\ areq.present
         /\ HasWord(areq.header)
         /\ LastWordOf(areq.header) = <<Text(r.token)>>
         /\ areq.at >= r.issued_at /\ areq.at <= r.issued_at + TokenTTL) =>
            /\ areq.payload.user_id = r.user_id
            /\ apc = "done" =>
                  /\ aresp.kind = "User"
                  /\ aresp.user.id = r.user_id
                  /\ aresp.user \in users

C10_Witness ==
    \E r \in tokens : \E p \in Procs :
        /\ Authenticated(p) /\ resp[p].token = r.token
        /\ apc = "done" /\ areq.header = <<Bearer, WS, Text(r.token)>>
        /\ areq.at = r.issued_at
        /\ aresp.kind = "User" /\ aresp.user.id = r.user_id
-----------------------------------------------------------------------------
(* Properties of google_login *)

BothConfigured ==
    /\ settings.google_client_id # NoSetting
    /\ settings.google_client_secret # NoSetting

(* C11: google_login answers with a redirect exactly when the client id   *)
(* and the client secret are both configured, and then to the provider     *)
(* URL built from the configured client id and the callback URL of the     *)
(* request; otherwise it answers with the 500 configuration error and no   *)
(* URL.                                                                    *)
C11_LoginRedirectIffConfigured ==
    login # NoLogin =>
        IF BothConfigured
        THEN /\ login.kind = "Redirect"
             /\ login.url.client_id = settings.google_client_id
             /\ login.url.redirect_uri.host = login.host
             /\ login.url.redirect_uri.path = "/auth/google/callback"
             /\ login.url.endpoint = "accounts.google.com"
        ELSE /\ login.kind = "Configuration"
             /\ login.status = 500
             /\ login.url = NoUrl

C11_Witness ==
    /\ login.kind = "Configuration"
    /\ settings.google_client_id # NoSetting
    /\ settings.google_client_secret = NoSetting
-----------------------------------------------------------------------------
(* Properties of google_callback: failures *)

(* the responses the handler builds itself, as a JSON error body or as an *)
(* HTTP error; every other failure is an exception that leaves the handler *)
StructuredKinds ==
    {"MissingAuthorizationCode", "CodeExchangeFailed", "EmailNotVerified"}

(* C12: a callback whose create_token could not persist the token still   *)
(* ends Authenticated and redirects the client with an issued token.       *)
C12_TokenStoreFailureNotFatal ==
    \A p \in Procs :
        (pc[p] = "done" /\ Called(p, "create_token")) =>
            /\ resp[p].kind = "Authenticated"
            /\ resp[p].token # NoJwt

(* the profile request of the invocation failed *)
ProfileFetchFailed(p) ==
    /\ pc[p] = "done" /\ Called(p, "get_user_info") /\ ~Fetched(p)

(* C13: a callback whose profile fetch failed ends in the structured      *)
(* ProfileFetchFailed error, has created no user and issued no token.      *)
C13_ProfileFetchFailureStructured ==
    \A p \in Procs :
        ProfileFetchFailed(p) =>
            /\ resp[p].kind = "ProfileFetchFailed"
            /\ ~Called(p, "create_user") /\ ~Called(p, "create_token")
            /\ resp[p].token = NoJwt

(* C14: a callback whose profile has verified_email = false ends in       *)
(* EmailNotVerified with a 400-class status, whatever the e-mail is.       *)
C14_UnverifiedAlwaysEmailNotVerified ==
    \A p \in Procs :
        (pc[p] = "done" /\ Fetched(p) /\ ~req[p].profile.verified_email) =>
            /\ resp[p].kind = "EmailNotVerified"
            /\ resp[p].status \in 400..499

(* the code exchange of the invocation failed *)
ExchangeFailed(p) ==
    /\ pc[p] # "get_token" /\ Called(p, "get_token")
    /\ req[p].access_token = NoCode

(* C15: a callback whose code exchange failed ends in CodeExchangeFailed  *)
(* with status 400 having called nothing but get_token: no profile fetch,  *)
(* no user lookup or creation, no token.                                   *)
C15_ExchangeFailureStops ==
    \A p \in Procs :
        /\ ExchangeFailed(p) =>
              /\ pc[p] = "done"
              /\ resp[p] = Response("CodeExchangeFailed", 400, NoJwt)
              /\ req[p].calls = <<"get_token">>
              /\ req[p].user_id = 0
        /\ resp[p].kind = "CodeExchangeFailed" => ExchangeFailed(p)

C15_Witness ==
    \E p \in Procs :
        /\ ExchangeFailed(p)
        /\ req[p].code \in usedCodes
        /\ resp[p].kind = "CodeExchangeFailed"
        /\ users # {} /\ tokens # {}

(* a callback that came without a code answers 400 at once *)
NoCodeAnswered ==
    \A p \in Procs :
        /\ (pc[p] # "idle" /\ req[p].code = NoCode) =>
              /\ pc[p] = "done"
              /\ resp[p] = Response("MissingAuthorizationCode", 400, NoJwt)
              /\ req[p].calls = <<>>
        /\ resp[p].kind = "MissingAuthorizationCode" => req[p].code = NoCode

(* the step that answers it touches neither the provider nor the stores *)
NoCodeStepFrame ==
    \A p \in Procs :
        (resp'[p].kind = "MissingAuthorizationCode" /\ resp'[p] # resp[p]) =>
            /\ users' = users /\ tokens' = tokens /\ usedCodes' = usedCodes
            /\ pc[p] \in {"idle", "done"}

(* C16: a callback without a code ends in MissingAuthorizationCode with   *)
(* status 400 before any other step: nothing is sent to the provider and   *)
(* the user and token tables are unchanged.                                *)
C16_MissingCodeFirst ==
    []NoCodeAnswered /\ [][NoCodeStepFrame]_vars

C16_Witness ==
    \E p \in Procs :
        /\ pc[p] = "done" /\ req[p].code = NoCode
        /\ resp[p].kind = "MissingAuthorizationCode"
        /\ users # {} /\ tokens # {} /\ usedCodes # {}
-----------------------------------------------------------------------------
(* Properties of google_callback: order of the steps *)

StepsFound == <<"get_token", "get_user_info", "get_user_by_email", "create_token">>

StepsCreated ==
    <<"get_token", "get_user_info", "get_user_by_email", "create_user", "create_token">>

IsPrefix(s, t) == Len(s) <= Len(t) /\ s = SubSeq(t, 1, Len(s))

(* C17: the calls of one callback are a prefix of exchange, profile       *)
(* fetch, user lookup, (user creation,) token creation; each is made only  *)
(* after the one before it succeeded and, for the user lookup, after the   *)
(* verified_email check passed; a callback is Authenticated only after     *)
(* all of them.                                                            *)
C17_StepOrder ==
    \A p \in Procs :
        /\ IsPrefix(req[p].calls, StepsFound) \/ IsPrefix(req[p].calls, StepsCreated)
        /\ (Called(p, "get_token") \/ pc[p] = "get_token") =>
              req[p].code # NoCode
        /\ (Called(p, "get_user_info") \/ pc[p] = "get_user_info") =>
              req[p].access_token # NoCode
        /\ (Called(p, "get_user_by_email") \/ pc[p] = "get_user_by_email") =>
              /\ Fetched(p) /\ req[p].profile.verified_email
              /\ Len(req[p].profile.email) >= 2
        /\ Called(p, "create_user") => Called(p, "get_user_by_email")
        /\ (Called(p, "create_token") \/ pc[p] = "create_token") =>
              /\ req[p].user_id # 0
              /\ \E u \in users : /\ u.id = req[p].user_id
                                  /\ u.email = req[p].profile.email
        /\ resp[p].kind = "Authenticated" =>
              /\ pc[p] = "done"
              /\ req[p].calls \in {StepsFound, StepsCreated}

C17_Witness ==
    \E p, q \in Procs :
        /\ Authenticated(p) /\ req[p].calls = StepsCreated
        /\ Authenticated(q) /\ req[q].calls = StepsFound

-----------------------------------------------------------------------------
(* Properties of google_callback: single-use codes *)

Exchanges(p) == Cardinality({i \in 1..Len(req[p].calls) : req[p].calls[i] = "get_token"})

(* of two callbacks with the same code at most one got past the exchange, *)
(* the other ended in the 400 exchange error with no user and no token;    *)
(* no callback sent more than one exchange request                         *)
OneLoginPerCode ==
    /\ \A p \in Procs : Exchanges(p) <= 1
    /\ \A p, q \in Procs :
          (p # q /\ req[p].code # NoCode /\ req[p].code = req[q].code
           /\ req[p].access_token # NoCode /\ pc[q] \notin {"get_token"}) =>
              /\ resp[q] = Response("CodeExchangeFailed", 400, NoJwt)
              /\ req[q].calls = <<"get_token">>
              /\ req[q].user_id = 0

(* an exchange request for a code the provider already redeemed ends the  *)
(* callback with the 400 exchange error and leaves the stores alone        *)
RedeemedCodeRefused ==
    \A p \in Procs :
        (pc[p] = "get_token" /\ pc'[p] # "get_token"
         /\ req[p].code \in usedCodes) =>
            /\ pc'[p] = "done"
            /\ resp'[p] = Response("CodeExchangeFailed", 400, NoJwt)
            /\ users' = users /\ tokens' = tokens

(* C18: with a provider that redeems each code once, of the callbacks     *)
(* that present the same code, one after the other or interleaved, at most *)
(* one is Authenticated; the others end in the 400 exchange error without  *)
(* a token or a user, and each callback sends one exchange request.        *)
C18_CodeSingleUse ==
    []OneLoginPerCode /\ [][RedeemedCodeRefused]_vars

C18_Witness ==
    \E p, q \in Procs :
        /\ p # q /\ req[p].code = req[q].code
        /\ Authenticated(p)
        /\ resp[q].kind = "CodeExchangeFailed"

-----------------------------------------------------------------------------
(* Properties of is_authenticated: effects and totality *)

(* C19: no step of is_authenticated, whatever its outcome, changes the    *)
(* user table, the token table or the provider's codes.                    *)
C19_AuthenticateNoSideEffect ==
    [][(apc' # apc \/ areq' # areq \/ aresp' # aresp) =>
          (users' = users /\ tokens' = tokens /\ usedCodes' = usedCodes
           /\ pc' = pc /\ req' = req /\ resp' = resp)]_vars

C19_Witness ==
    /\ apc = "done" /\ aresp.kind = "User"
    /\ Cardinality(users) = 2 /\ Cardinality(tokens) >= 2
    /\ \E p \in Procs : pc[p] \notin {"idle", "done"}

(* C20: every is_authenticated call ends with a User or with one of       *)
(* MissingCredential/400, TokenExpired/401, TokenInvalid/401 and           *)
(* UserNotFound/404.                                                       *)
C20_AuthenticateTotal ==
    apc = "done" =>
        \/ aresp.kind = "User"
        \/ aresp.kind = "MissingCredential" /\ aresp.status = 400
        \/ aresp.kind = "TokenExpired" /\ aresp.status = 401
        \/ aresp.kind = "TokenInvalid" /\ aresp.status = 401
        \/ aresp.kind = "UserNotFound" /\ aresp.status = 404
====
